---- MODULE Spec2Model ----
(***************************************************************************)
(* Grade transformation pipeline of array-case-study (src/src/transform.py *)
(* driven by src/src/main.py).                                             *)
(*                                                                         *)
(* Numbers.  Scores are the integers 0..100.  Python's None and the float  *)
(* NaN that pandas puts in place of None are the two negative sentinels    *)
(* None and NaN.  quiz_avg is kept multiplied by QuizScale (the mean of at *)
(* most five integers is then an integer), weights are kept in hundredths  *)
(* (0.3 is 30) and final_grade is kept multiplied by GradeScale, so that   *)
(* the weighted sum and the threshold tests are exact.  Floating-point     *)
(* rounding of the Python arithmetic is not modelled.                      *)
(***************************************************************************)
EXTENDS Integers, Sequences, FiniteSets, TLC

\* ---------------------------------------------------------------- bounds
MaxStudents == 2

MaxRecords == 3

MaxRoster == 4

\* ------------------------------------------------------- value encoding
None == -1
NaN == -2
QuizScale == 3 * 4 * 5
WeightScale == 10 * 10
GradeScale == QuizScale * WeightScale
KeyError == "KeyError"

IsNumber(v) == v >= 0
\* pandas isna()/notna(): None and NaN are both missing
IsMissing(v) == v = None \/ v = NaN

QuizKeys == <<"quiz1", "quiz2", "quiz3", "quiz4", "quiz5">>
ComponentKeys == <<"quiz_avg", "midterm", "final", "attendance_percent">>
NumericKeys == {"quiz1", "quiz2", "quiz3", "quiz4", "quiz5", "midterm",
                "final", "attendance_percent", "quiz_avg", "final_grade"}
WeightKeys == {"quizzes", "midterm", "final", "attendance"}
ScaleKeys == {"A", "B", "C", "D", "F"}

\* ------------------------------------------------------------ the inputs
Ids == {101, 102}
Sections == {"S1"}

\* <<quiz1..quiz5, midterm, final, attendance_percent>> as validate_score
\* leaves them: a number in 0..100 or None
ScoreRows ==
    { <<80, None, 90, None, 100, 90, 90, 90>>,
      <<0, 0, 0, 0, 0, 0, 0, 0>>,
      <<None, None, None, None, None, 85, 90, 100>>,
      <<70, 85, None, None, None, None, 90, 100>>,
      <<80, 80, 80, 80, 80, 80, 80, 80>> }

\* a row as ingest / csv_to_students / the "Add New Student" form build it:
\* no derived key yet (dict.get gives None for them)
MkRow(id, sec, t) ==
    [student_id |-> id, section |-> sec,
     quiz1 |-> t[1], quiz2 |-> t[2], quiz3 |-> t[3], quiz4 |-> t[4],
     quiz5 |-> t[5], midterm |-> t[6], final |-> t[7],
     attendance_percent |-> t[8],
     quiz_avg |-> None, final_grade |-> None, letter_grade |-> "None"]

\* student_id is not checked for uniqueness: every score row comes with id
\* 101, one of them with id 102 as well
Rows ==
    {MkRow(101, "S1", t) : t \in ScoreRows}
    \cup {MkRow(102, "S1", <<80, 80, 80, 80, 80, 80, 80, 80>>)}

RowSeqs(n) == UNION {[1..k -> Rows] : k \in 0..n}

\* ------------------------------------------------------------ the config
Restrict(f, S) == [x \in S |-> f[x]]

FullWeights == [quizzes |-> 30, midterm |-> 30, final |-> 30, attendance |-> 10]
LightWeights == [quizzes |-> 30, midterm |-> 20, final |-> 20, attendance |-> 10]
FullScale == [A |-> 90, B |-> 80, C |-> 70, D |-> 60, F |-> 0]

FullConfig ==
    [weights |-> FullWeights, grade_scale |-> FullScale,
     thresholds |-> [at_risk |-> 75]]

\* configs as config.json can hold them: complete; with weights that sum to
\* 0.8 and no at_risk key; with one weight key, one scale key or one section
\* left out
Configs ==
    { FullConfig,
      [FullConfig EXCEPT !.weights = LightWeights,
                         !.thresholds = Restrict(FullConfig.thresholds, {})],
      [FullConfig EXCEPT !.weights = Restrict(FullWeights, WeightKeys \ {"quizzes"})],
      [FullConfig EXCEPT !.weights = Restrict(FullWeights, WeightKeys \ {"attendance"})],
      [FullConfig EXCEPT !.grade_scale = Restrict(FullScale, ScaleKeys \ {"A"})],
      Restrict([FullConfig EXCEPT !.grade_scale = Restrict(FullScale, ScaleKeys \ {"D"})],
               {"weights", "grade_scale"}),
      Restrict(FullConfig, {"grade_scale", "thresholds"}),
      Restrict(FullConfig, {"weights", "thresholds"}) }

\* ------------------------------------------------- transform_students
\* student.get(key)
Get(student, key) == IF key \in DOMAIN student THEN student[key] ELSE None

RECURSIVE SeqSum(_)
SeqSum(s) == IF s = <<>> THEN 0 ELSE Head(s) + SeqSum(Tail(s))

\* [q for q in quiz_scores if q is not None]
valid_quizzes(student) ==
    SelectSeq([i \in 1..5 |-> Get(student, QuizKeys[i])], LAMBDA q : q # None)

\* a quiz_avg the record already carries is kept, and only an absent one
\* computed
quiz_avg_kept(student) ==
    LET valid == valid_quizzes(student)
    IN  IF Get(student, "quiz_avg") # None THEN student.quiz_avg
        ELSE IF valid = <<>> THEN None
        ELSE IF \E i \in 1..Len(valid) : valid[i] = NaN THEN NaN
        ELSE (SeqSum(valid) * QuizScale) \div Len(valid)

\* sum(valid_quizzes) / len(valid_quizzes) if valid_quizzes else None,
\* times QuizScale; a NaN among the summands makes the sum NaN
quiz_avg(student) ==
    LET valid == valid_quizzes(student)
    IN  IF valid = <<>> THEN None
        ELSE IF \E i \in 1..Len(valid) : valid[i] = NaN THEN NaN
        ELSE (SeqSum(valid) * QuizScale) \div Len(valid)

\* a test by truth value, not all([...]), which takes a score of 0 for missing
MissingDataFalsy(qa, midterm, final_exam, attendance) ==
    \E v \in {qa, midterm, final_exam, attendance} : v = None \/ v = 0

\* None in [quiz_avg, midterm, final_exam, attendance]
MissingData(qa, midterm, final_exam, attendance) ==
    None \in {qa, midterm, final_exam, attendance}

\* the weighted sum divided by the sum of the weights
final_grade_normalized(qa, midterm, final_exam, attendance, weights) ==
    IF NaN \in {qa, midterm, final_exam, attendance} THEN NaN
    ELSE ((qa * weights["quizzes"]
           + QuizScale * (midterm * weights["midterm"]
                          + final_exam * weights["final"]
                          + attendance * weights["attendance"])) * WeightScale)
         \div (weights["quizzes"] + weights["midterm"] + weights["final"]
               + weights["attendance"])

\* quiz_avg * weights['quizzes'] + midterm * weights['midterm'] + ...,
\* times GradeScale; NaN operands give NaN
final_grade(qa, midterm, final_exam, attendance, weights) ==
    IF NaN \in {qa, midterm, final_exam, attendance} THEN NaN
    ELSE qa * weights["quizzes"]
         + QuizScale * (midterm * weights["midterm"]
                        + final_exam * weights["final"]
                        + attendance * weights["attendance"])

\* final_grade > scale[k], the bound excluded
AtLeastStrict(fg, bound) == fg # NaN /\ fg > bound * GradeScale

\* final_grade >= scale[k]; every comparison with NaN is False
AtLeast(fg, bound) == fg # NaN /\ fg >= bound * GradeScale

\* the if/elif chain; scale[k] is looked up only when the chain reaches it
letter_grade(fg, scale) ==
    IF "A" \notin DOMAIN scale THEN KeyError
    ELSE IF AtLeast(fg, scale["A"]) THEN "A"
    ELSE IF "B" \notin DOMAIN scale THEN KeyError
    ELSE IF AtLeast(fg, scale["B"]) THEN "B"
    ELSE IF "C" \notin DOMAIN scale THEN KeyError
    ELSE IF AtLeast(fg, scale["C"]) THEN "C"
    ELSE IF "D" \notin DOMAIN scale THEN KeyError
    ELSE IF AtLeast(fg, scale["D"]) THEN "D"
    ELSE "F"

\* the body of the for loop, for one student; raised = a KeyError left the
\* loop, after the assignments made so far
TransformStudent(student, weights, scale) ==
    LET qa == quiz_avg(student)
        s1 == [student EXCEPT !.quiz_avg = qa]
        midterm == Get(s1, "midterm")
        final_exam == Get(s1, "final")
        attendance == Get(s1, "attendance_percent")
    IN  IF MissingData(qa, midterm, final_exam, attendance)
        THEN [student |-> [s1 EXCEPT !.final_grade = None, !.letter_grade = "N/A"],
              raised |-> FALSE]
        ELSE IF ~(WeightKeys \subseteq DOMAIN weights)
        THEN [student |-> s1, raised |-> TRUE]
        ELSE LET fg == final_grade(qa, midterm, final_exam, attendance, weights)
                 s2 == [s1 EXCEPT !.final_grade = fg]
                 lg == letter_grade(fg, scale)
             IN  IF lg = KeyError
                 THEN [student |-> s2, raised |-> TRUE]
                 ELSE [student |-> [s2 EXCEPT !.letter_grade = lg], raised |-> FALSE]

RECURSIVE TransformLoop(_, _, _, _)
TransformLoop(records, i, weights, scale) ==
    IF i > Len(records) THEN [records |-> records, raised |-> FALSE]
    ELSE LET t == TransformStudent(records[i], weights, scale)
             upd == [records EXCEPT ![i] = t.student]
         IN  IF t.raised THEN [records |-> upd, raised |-> TRUE]
             ELSE TransformLoop(upd, i + 1, weights, scale)

\* all keys of the config are looked up before the loop
transform_students_validating(student_records, cfg) ==
    IF student_records = <<>> THEN [records |-> <<>>, raised |-> FALSE]
    ELSE IF \/ "weights" \notin DOMAIN cfg \/ "grade_scale" \notin DOMAIN cfg
            \/ ~(WeightKeys \subseteq DOMAIN cfg["weights"])
            \/ ~(ScaleKeys \subseteq DOMAIN cfg["grade_scale"])
    THEN [records |-> student_records, raised |-> TRUE]
    ELSE TransformLoop(student_records, 1, cfg["weights"], cfg["grade_scale"])

\* the records are changed in place, also when a KeyError ends the call
transform_students(student_records, cfg) ==
    IF student_records = <<>> THEN [records |-> <<>>, raised |-> FALSE]
    ELSE IF "weights" \notin DOMAIN cfg \/ "grade_scale" \notin DOMAIN cfg
    THEN [records |-> student_records, raised |-> TRUE]
    ELSE TransformLoop(student_records, 1, cfg["weights"], cfg["grade_scale"])

\* ------------------------------------------------------------ pandas
\* a column of pd.DataFrame(records) is float64 as soon as one entry is a
\* number or NaN; a column of None only stays an object column
ColumnIsFloat(records, k) == \E i \in 1..Len(records) : records[i][k] # None

FloatColumns(records) == {k \in NumericKeys : ColumnIsFloat(records, k)}

\* a None of a float64 column is stored, and read back, as NaN
NoneToNaN(r, floatColumns) ==
    LET Conv(k, v) == IF v = None /\ k \in floatColumns THEN NaN ELSE v
    IN  [r EXCEPT !.quiz1 = Conv("quiz1", @), !.quiz2 = Conv("quiz2", @),
                  !.quiz3 = Conv("quiz3", @), !.quiz4 = Conv("quiz4", @),
                  !.quiz5 = Conv("quiz5", @), !.midterm = Conv("midterm", @),
                  !.final = Conv("final", @),
                  !.attendance_percent = Conv("attendance_percent", @),
                  !.quiz_avg = Conv("quiz_avg", @),
                  !.final_grade = Conv("final_grade", @)]

\* pd.DataFrame(records).to_dict('records')
DataFrameRecords(records) ==
    [i \in 1..Len(records) |-> NoneToNaN(records[i], FloatColumns(records))]

\* pd.concat([pd.DataFrame(a), pd.DataFrame(b)]).to_dict('records').  A
\* column that is None only on one side and float64 on the other comes out
\* float64 (None becomes NaN) where pandas leaves all-NA columns out of the
\* result dtype (dropNA), and as an object column (None kept) where it does not
ConcatRecords(a, b, dropNA) ==
    LET Columns(own, other) ==
            FloatColumns(own) \cup (IF dropNA THEN FloatColumns(other) ELSE {})
    IN  [i \in 1..Len(a) |-> NoneToNaN(a[i], Columns(a, b))]
        \o [i \in 1..Len(b) |-> NoneToNaN(b[i], Columns(b, a))]

\* ---------------------------------------------------- the operations
\* the new record appended and the grades not recalculated
insert_student_untransformed(students, new_student, cfg) ==
    [records |-> Append(students, new_student), raised |-> FALSE]

insert_student(students, new_student, cfg) ==
    transform_students(Append(students, new_student), cfg)

insert_students_bulk(students, new_students, cfg, dropNA) ==
    IF new_students = <<>> THEN [records |-> students, raised |-> FALSE]
    ELSE transform_students(ConcatRecords(students, new_students, dropNA), cfg)

\* only the first record with the id is left out
delete_student_first(students, student_id) ==
    LET df == DataFrameRecords(students)
        matches == {i \in 1..Len(df) : df[i].student_id = student_id}
    IN  IF matches = {} THEN df
        ELSE LET first == CHOOSE i \in matches : \A j \in matches : i <= j
             IN  SubSeq(df, 1, first - 1) \o SubSeq(df, first + 1, Len(df))

\* the position of the id looked up, -1 when no record has it, and the
\* record at that position deleted: the last one for an id no record has
delete_student_by_position(students, student_id) ==
    LET df == DataFrameRecords(students)
        matches == {i \in 1..Len(df) : df[i].student_id = student_id}
    IN  IF df = <<>> THEN <<>>
        ELSE IF matches = {} THEN SubSeq(df, 1, Len(df) - 1)
        ELSE SelectSeq(df, LAMBDA r : r.student_id # student_id)

delete_student(students, student_id) ==
    IF students = <<>> THEN <<>>
    ELSE SelectSeq(DataFrameRecords(students), LAMBDA r : r.student_id # student_id)

\* df.sort_values(by=key, ascending=..., na_position='last') with the default
\* kind='quicksort', which is not a stable sort: the rows with a value come
\* in any arrangement that is in order, the rows with a missing value come
\* after them in the order they had
IndexOrders(n) ==
    {p \in [1..n -> 1..n] : \A i, j \in 1..n : i # j => p[i] # p[j]}

\* missing values taken for the greatest value, so that a descending sort
\* begins with them
InOrderMissingGreatest(x, y, ascending) ==
    IF ascending
    THEN IsMissing(y) \/ (~IsMissing(x) /\ x <= y)
    ELSE IsMissing(x) \/ (~IsMissing(y) /\ x >= y)

InOrder(x, y, ascending) ==
    IF IsMissing(y) THEN TRUE
    ELSE IF IsMissing(x) THEN FALSE
    ELSE IF ascending THEN x <= y ELSE x >= y

SortValues(records, key, ascending) ==
    LET n == Len(records)
        Val(i) == records[i][key]
    IN  {[i \in 1..n |-> records[p[i]]] :
            p \in {q \in IndexOrders(n) :
                      \A i \in 1..(n - 1) :
                          /\ InOrder(Val(q[i]), Val(q[i + 1]), ascending)
                          /\ IsMissing(Val(q[i])) => q[i] < q[i + 1]}}

DefaultAtRisk == 60

\* another default than 60 for the absent key
AtRiskThresholdOtherDefault(threshold, cfg) ==
    IF threshold # None THEN threshold
    ELSE IF "thresholds" \in DOMAIN cfg /\ "at_risk" \in DOMAIN cfg["thresholds"]
    THEN cfg["thresholds"]["at_risk"]
    ELSE DefaultAtRisk + 15

\* load_config().get('thresholds', {}).get('at_risk', 60) when no threshold
\* is passed
AtRiskThreshold(threshold, cfg) ==
    IF threshold # None THEN threshold
    ELSE IF "thresholds" \in DOMAIN cfg /\ "at_risk" \in DOMAIN cfg["thresholds"]
    THEN cfg["thresholds"]["at_risk"]
    ELSE DefaultAtRisk

\* the threshold itself counted as at risk
get_at_risk_students_inclusive(students, threshold, cfg) ==
    IF students = <<>> THEN {<<>>}
    ELSE LET t == AtRiskThreshold(threshold, cfg)
             at_risk_df ==
                 SelectSeq(DataFrameRecords(students),
                           LAMBDA r : ~IsMissing(r.final_grade)
                                      /\ r.final_grade <= t * GradeScale)
         IN  SortValues(at_risk_df, "final_grade", TRUE)

\* the set of lists the call can return
get_at_risk_students(students, threshold, cfg) ==
    IF students = <<>> THEN {<<>>}
    ELSE LET t == AtRiskThreshold(threshold, cfg)
             at_risk_df ==
                 SelectSeq(DataFrameRecords(students),
                           LAMBDA r : ~IsMissing(r.final_grade)
                                      /\ r.final_grade < t * GradeScale)
         IN  SortValues(at_risk_df, "final_grade", TRUE)

\* ------------------------------------------------------- the queries
\* conditions as the program writes them: main.py's test of the letter, and
\* the test for a present final grade in the form analyze.py gives it
Conditions == {"letter_grade == 'A'", "final_grade is not None"}

\* condition(row)
Holds(condition, row) ==
    IF condition = "letter_grade == 'A'" THEN row.letter_grade = "A"
    ELSE row.final_grade # None

\* df.apply(condition, axis=1) puts the condition to the rows of the
\* DataFrame, df[mask] keeps the rows where it gave True
select_students(students, condition) ==
    IF students = <<>> THEN <<>>
    ELSE SelectSeq(DataFrameRecords(students), LAMBDA row : Holds(condition, row))

\* field lists asked for: fields every record has, with a name no record
\* has among them, and names no record has only
FieldLists ==
    { <<"student_id", "final_grade">>,
      <<"student_id", "nickname", "midterm">>,
      <<"nickname">>,
      <<>> }

Range(s) == {s[i] : i \in 1..Len(s)}

\* df[available_fields].to_dict('records'): to_dict builds the records from
\* the rows' tuples of column values, and a DataFrame without columns has no
\* such tuples, whatever its number of rows
project_students(students, fields) ==
    IF students = <<>> THEN <<>>
    ELSE LET df == DataFrameRecords(students)
             available_fields == Range(fields) \cap DOMAIN df[1]
         IN  IF available_fields = {} THEN <<>>
             ELSE [i \in 1..Len(df) |-> Restrict(df[i], available_fields)]

SortKeys == {"final_grade", "midterm"}

\* the set of lists the call can return
sort_students(students, key, reverse) ==
    IF students = <<>> THEN {<<>>}
    ELSE SortValues(DataFrameRecords(students), key, ~reverse)

DefaultTopN == 10

TopNs == {1, 2, DefaultTopN}

Min(a, b) == IF a <= b THEN a ELSE b

\* the set of lists the call can return: the rows with a final grade, sorted
\* from the highest down, and of them the first top_n
get_top_performers(students, top_n) ==
    IF students = <<>> THEN {<<>>}
    ELSE LET df_with_grades ==
                 SelectSeq(DataFrameRecords(students),
                           LAMBDA r : ~IsMissing(r.final_grade))
         IN  {SubSeq(df_sorted, 1, Min(top_n, Len(df_sorted))) :
                 df_sorted \in SortValues(df_with_grades, "final_grade", FALSE)}

\* ------------------------------------------------- StudentAnalytics
\* Records of the model carry no first_name and last_name; every record of
\* the program has both (ingest.py:54, main.py:194-195), so that reading them
\* never fails.
\* __init__: [s['final_grade'] for s in students if s['final_grade'] is not None]
final_grades(students) ==
    LET with_grade == SelectSeq(students, LAMBDA s : s.final_grade # None)
    IN  [i \in 1..Len(with_grade) |-> with_grade[i].final_grade]

\* g <= grade counted, the student's own grade among those below
LessOrEqual(x, y) == x # NaN /\ y # NaN /\ x <= y

\* x < y of two floats: False as soon as one of them is NaN
Less(x, y) == x # NaN /\ y # NaN /\ x < y

HundredPercent == 100

\* round(percentile, 2), kept in hundredths: the quotient rounded to the
\* nearest hundredth, a tie to the even one
percentile(below_count, n) ==
    LET scaled == below_count * HundredPercent * 100
        q == scaled \div n
        r == scaled % n
    IN  IF 2 * r > n THEN q + 1
        ELSE IF 2 * r < n THEN q
        ELSE IF q % 2 = 0 THEN q ELSE q + 1

\* student.copy() with the two keys added
WithPercentile(student, grades) ==
    LET below_count ==
            Cardinality({i \in 1..Len(grades) : Less(grades[i], student.final_grade)})
        added == [percentile |-> percentile(below_count, Len(grades)),
                  percentile_rank |-> below_count + 1]
    IN  [k \in DOMAIN student \cup DOMAIN added |->
            IF k \in DOMAIN added THEN added[k] ELSE student[k]]

\* sorted(..., key=lambda x: x['percentile'], reverse=True): a stable sort,
\* entries with equal percentile stay in their order
RECURSIVE InsertByPercentile(_, _)
InsertByPercentile(sorted, entry) ==
    IF sorted = <<>> THEN <<entry>>
    ELSE IF sorted[Len(sorted)].percentile >= entry.percentile
    THEN Append(sorted, entry)
    ELSE Append(InsertByPercentile(SubSeq(sorted, 1, Len(sorted) - 1), entry),
                sorted[Len(sorted)])

RECURSIVE SortedByPercentile(_)
SortedByPercentile(entries) ==
    IF entries = <<>> THEN <<>>
    ELSE InsertByPercentile(
             SortedByPercentile(SubSeq(entries, 1, Len(entries) - 1)),
             entries[Len(entries)])

calculate_percentiles(students) ==
    LET grades == final_grades(students)
        with_grade == SelectSeq(students, LAMBDA s : s.final_grade # None)
    IN  IF grades = <<>> THEN <<>>
        ELSE SortedByPercentile([i \in 1..Len(with_grade) |->
                                    WithPercentile(with_grade[i], grades)])

\* the record of self.students were the two keys set on the record itself
\* and not on a copy of it
student_aliased(student, grades) == WithPercentile(student, grades)

\* the record of self.students after the body of the loop: the two keys are
\* set on student.copy(), the record itself keeps its fields
student_after_copy(student, grades) == student

\* self.students after calculate_percentiles
students_after_percentiles(students) ==
    [i \in 1..Len(students) |->
        IF students[i].final_grade = None THEN students[i]
        ELSE student_after_copy(students[i], final_grades(students))]

\* Statistics are exact: a quotient is the pair of its numerator and its
\* denominator, and a value computed from a NaN is NaN.
Ratio(num, den) == [num |-> num, den |-> den]

HasNaN(data) == \E i \in 1..Len(data) : data[i] = NaN

\* the numbers of data in non-decreasing order
RECURSIVE InsertNumber(_, _)
InsertNumber(sorted, x) ==
    IF sorted = <<>> THEN <<x>>
    ELSE IF sorted[Len(sorted)] <= x THEN Append(sorted, x)
    ELSE Append(InsertNumber(SubSeq(sorted, 1, Len(sorted) - 1), x),
                sorted[Len(sorted)])

RECURSIVE Sorted(_)
Sorted(data) ==
    IF data = <<>> THEN <<>>
    ELSE InsertNumber(Sorted(SubSeq(data, 1, Len(data) - 1)), data[Len(data)])

\* np.mean(data)
Mean(data) == IF HasNaN(data) THEN NaN ELSE Ratio(SeqSum(data), Len(data))

\* np.median(data): the middle value, or the mean of the two middle values
Median(data) ==
    LET n == Len(data)
        s == Sorted(data)
    IN  IF HasNaN(data) THEN NaN
        ELSE IF n % 2 = 1 THEN Ratio(s[(n + 1) \div 2], 1)
        ELSE Ratio(s[n \div 2] + s[n \div 2 + 1], 2)

\* the smallest of the most frequent values, as scipy.stats.mode reports it
_calculate_mode_smallest(data) ==
    LET Count(v) == Cardinality({j \in 1..Len(data) : data[j] = v})
        most == {v \in Range(data) : \A w \in Range(data) : Count(w) <= Count(v)}
    IN  IF data = <<>> THEN 0
        ELSE CHOOSE v \in most : \A w \in most : v <= w

\* Counter(data).most_common(1)[0][0]: the value counted most often, of
\* several such the one met first; every NaN is a key of its own
_calculate_mode(data) ==
    LET Count(i) == IF data[i] = NaN THEN 1
                    ELSE Cardinality({j \in 1..Len(data) : data[j] = data[i]})
        first == CHOOSE i \in 1..Len(data) :
                    /\ \A j \in 1..Len(data) : Count(j) <= Count(i)
                    /\ \A j \in 1..(i - 1) : Count(j) < Count(i)
    IN  IF data = <<>> THEN 0 ELSE data[first]

RECURSIVE GCD(_, _)
GCD(a, b) == IF b = 0 THEN a ELSE GCD(b, a % b)

Abs(x) == IF x < 0 THEN -x ELSE x

RECURSIVE SeqGCD(_)
SeqGCD(s) == IF s = <<>> THEN 0 ELSE GCD(Abs(Head(s)), SeqGCD(Tail(s)))

\* np.var(data) is  sumsq * unit^2 / n^3  for the record returned here: the
\* deviations n * x - sum(data) are kept divided by their greatest common
\* divisor `unit`, and sumsq is the sum of their squares
Variance(data) ==
    LET n == Len(data)
        dev == [i \in 1..n |-> n * data[i] - SeqSum(data)]
        unit == SeqGCD(dev)
    IN  IF HasNaN(data) THEN NaN
        ELSE [sumsq |-> IF unit = 0 THEN 0
                        ELSE SeqSum([i \in 1..n |-> (dev[i] \div unit) * (dev[i] \div unit)]),
              unit |-> unit, n |-> n]

\* np.std(data), given by its square
StdDev(data) == IF HasNaN(data) THEN NaN ELSE [squared |-> Variance(data)]

\* min(data) and max(data) of Python: the first value is kept until a later
\* one compares below (above) it, which a NaN never does
RECURSIVE PyMin(_, _)
PyMin(m, rest) ==
    IF rest = <<>> THEN m
    ELSE PyMin(IF Less(Head(rest), m) THEN Head(rest) ELSE m, Tail(rest))

RECURSIVE PyMax(_, _)
PyMax(m, rest) ==
    IF rest = <<>> THEN m
    ELSE PyMax(IF Less(m, Head(rest)) THEN Head(rest) ELSE m, Tail(rest))

Minus(x, y) == IF x = NaN \/ y = NaN THEN NaN ELSE x - y

basic_statistics(data) ==
    IF data = <<>> THEN <<>>
    ELSE [mean |-> Mean(data),
          median |-> Median(data),
          mode |-> _calculate_mode(data),
          std_dev |-> StdDev(data),
          variance |-> Variance(data),
          min |-> PyMin(Head(data), Tail(data)),
          max |-> PyMax(Head(data), Tail(data)),
          range |-> Minus(PyMax(Head(data), Tail(data)),
                          PyMin(Head(data), Tail(data)))]

\* the percentile taken without interpolation, as the sorted value at or
\* below the position
Quartile4Lower(data, quarters) ==
    4 * Sorted(data)[((Len(data) - 1) * quarters) \div 4 + 1]

\* 4 * np.percentile(data, 25 * quarters), by linear interpolation between
\* the two sorted values around the position (n - 1) * quarters / 4
Quartile4(data, quarters) ==
    LET s == Sorted(data)
        pos == (Len(data) - 1) * quarters
        lo == pos \div 4 + 1
        r == pos % 4
    IN  IF r = 0 THEN 4 * s[lo] ELSE 4 * s[lo] + r * (s[lo + 1] - s[lo])

\* the pair (outliers, outlier_info); lower_bound and upper_bound are
\* q1 - 1.5 * iqr and q3 + 1.5 * iqr
identify_outliers_iqr(data) ==
    IF data = <<>> THEN << <<>>, <<>> >>
    ELSE IF HasNaN(data)
    THEN << <<>>, [q1 |-> NaN, q3 |-> NaN, iqr |-> NaN, lower_bound |-> NaN,
                   upper_bound |-> NaN, outlier_count |-> 0] >>
    ELSE LET q1 == Quartile4(data, 1)
             q3 == Quartile4(data, 3)
             iqr == q3 - q1
             lower_bound == 2 * q1 - 3 * iqr
             upper_bound == 2 * q3 + 3 * iqr
             outliers == SelectSeq(data, LAMBDA x : 8 * x < lower_bound
                                                    \/ 8 * x > upper_bound)
         IN  << outliers,
                [q1 |-> Ratio(q1, 4), q3 |-> Ratio(q3, 4), iqr |-> Ratio(iqr, 4),
                 lower_bound |-> Ratio(lower_bound, 8),
                 upper_bound |-> Ratio(upper_bound, 8),
                 outlier_count |-> Len(outliers)] >>

DefaultZThreshold == 2

\* the test against the sample standard deviation (divisor n - 1) in place of
\* np.std's population standard deviation
identify_outliers_zscore_sample(data, threshold) ==
    IF data = <<>> THEN << <<>>, <<>> >>
    ELSE IF HasNaN(data)
    THEN << <<>>, [mean |-> NaN, std_dev |-> NaN, threshold |-> threshold,
                   outlier_count |-> 0] >>
    ELSE LET n == Len(data)
             var == Variance(data)
             Dev(x) == (n * x - SeqSum(data)) \div var.unit
             outliers == SelectSeq(data, LAMBDA x :
                             (n - 1) * Dev(x) * Dev(x) > threshold * threshold * var.sumsq)
         IN  IF var.sumsq = 0
             THEN << <<>>, [mean |-> Mean(data), std_dev |-> StdDev(data),
                            threshold |-> threshold] >>
             ELSE << outliers,
                     [mean |-> Mean(data), std_dev |-> StdDev(data),
                      threshold |-> threshold, outlier_count |-> Len(outliers)] >>

\* the pair (outliers, outlier_info).  abs((x - mean) / std_dev) > threshold
\* is decided on the squares:  n * dev(x)^2 > threshold^2 * sum of dev^2
identify_outliers_zscore(data, threshold) ==
    IF data = <<>> THEN << <<>>, <<>> >>
    ELSE IF HasNaN(data)
    THEN << <<>>, [mean |-> NaN, std_dev |-> NaN, threshold |-> threshold,
                   outlier_count |-> 0] >>
    ELSE LET n == Len(data)
             var == Variance(data)
             Dev(x) == (n * x - SeqSum(data)) \div var.unit
             outliers == SelectSeq(data, LAMBDA x :
                             n * Dev(x) * Dev(x) > threshold * threshold * var.sumsq)
         IN  IF var.sumsq = 0
             THEN << <<>>, [mean |-> Mean(data), std_dev |-> StdDev(data),
                            threshold |-> threshold] >>
             ELSE << outliers,
                     [mean |-> Mean(data), std_dev |-> StdDev(data),
                      threshold |-> threshold, outlier_count |-> Len(outliers)] >>

\* for every outlier grade, the first student with that final grade
OutlierStudents(students, outliers, method) ==
    LET Holder(grade) ==
            {i \in 1..Len(students) :
                /\ students[i].final_grade # NaN
                /\ students[i].final_grade = grade
                /\ \A j \in 1..(i - 1) : students[j].final_grade # grade}
        found == SelectSeq(outliers, LAMBDA grade : Holder(grade) # {})
    IN  [k \in 1..Len(found) |->
            LET student == students[CHOOSE i \in Holder(found[k]) : TRUE]
            IN  [student_id |-> student.student_id, final_grade |-> found[k],
                 section |-> student.section, method |-> method]]

get_all_outliers(students) ==
    LET grades == final_grades(students)
        by_iqr == identify_outliers_iqr(grades)
        by_zscore == identify_outliers_zscore(grades, DefaultZThreshold)
        iqr_outlier_students == OutlierStudents(students, by_iqr[1], "IQR")
        zscore_outlier_students == OutlierStudents(students, by_zscore[1], "Z-Score")
    IN  IF grades = <<>> THEN <<>>
        ELSE [iqr |-> [outliers |-> by_iqr[1],
                       outlier_students |-> iqr_outlier_students,
                       statistics |-> by_iqr[2]],
              zscore |-> [outliers |-> by_zscore[1],
                          outlier_students |-> zscore_outlier_students,
                          statistics |-> by_zscore[2]],
              all_outlier_students |->
                  iqr_outlier_students \o zscore_outlier_students]

\* Counter(letter_grade of the section's students that have one)
_get_section_letter_grades(students, section) ==
    LET section_students ==
            SelectSeq(students, LAMBDA s : s.section = section
                                           /\ s.letter_grade # "None")
    IN  [letter \in {section_students[i].letter_grade :
                        i \in 1..Len(section_students)} |->
            Cardinality({i \in 1..Len(section_students) :
                            section_students[i].letter_grade = letter})]

get_section_comparison(students) ==
    LET Counted(section) ==
            SelectSeq(students, LAMBDA s : s.section = section
                                           /\ s.final_grade # None)
        Grades(section) ==
            [i \in 1..Len(Counted(section)) |-> Counted(section)[i].final_grade]
        sections == {students[i].section : i \in
                        {j \in 1..Len(students) :
                            /\ students[j].section # ""
                            /\ students[j].final_grade # None}}
    IN  [section \in sections |->
            [statistics |-> basic_statistics(Grades(section)),
             count |-> Len(Grades(section)),
             letter_grades |-> _get_section_letter_grades(students, section)]]

\* [s[key] for s in self.students if s.get(key) is not None]
ScoresOf(students, key) ==
    LET have == SelectSeq(students, LAMBDA s : key \in DOMAIN s /\ s[key] # None)
    IN  [i \in 1..Len(have) |-> have[i][key]]

\* basic_statistics of every key of keys that some student has a score for
StatisticsByKey(students, keys) ==
    [key \in {k \in Range(keys) : ScoresOf(students, k) # <<>>} |->
        basic_statistics(ScoresOf(students, key))]

get_quiz_statistics(students) == StatisticsByKey(students, QuizKeys)

get_component_statistics(students) == StatisticsByKey(students, ComponentKeys)

generate_comprehensive_report(students) ==
    [final_grade_statistics |-> basic_statistics(final_grades(students)),
     quiz_statistics |-> get_quiz_statistics(students),
     component_statistics |-> get_component_statistics(students),
     percentiles |-> calculate_percentiles(students),
     outliers |-> get_all_outliers(students),
     section_comparison |-> get_section_comparison(students),
     total_students |->
         Cardinality({i \in 1..Len(students) : students[i].final_grade # None}),
     students_with_missing_data |->
         Cardinality({i \in 1..Len(students) : students[i].final_grade = None})]

\* ------------------------------------------------------ the state machine
VARIABLES
    students,   \* st.session_state.students
    config,     \* what load_config() reads, fixed for the run
    call,       \* the last call: operation, arguments, the collection it
                \* handed to transform_students, the length it started from
    ret,        \* what the last call returned (<<>> when it raised)
    error       \* "" or the exception that ended the last call

vars == <<students, config, call, ret, error>>

Call(op, id, threshold, rows, input, before) ==
    [op |-> op, id |-> id, threshold |-> threshold, rows |-> rows,
     input |-> input, before |-> before]

Thresholds == {None, 80}

Init ==
    /\ students = <<>>
    /\ config \in Configs
    /\ call = Call("init", None, None, <<>>, <<>>, 0)
    /\ ret = <<>>
    /\ error = ""

Outcome(result) ==
    /\ ret' = IF result.raised THEN <<>> ELSE result.records
    /\ error' = IF result.raised THEN KeyError ELSE ""

\* main.py: st.session_state.students = transform_students(read_csv())
ReadCsv ==
    /\ call.op = "init"
    /\ \E rows \in RowSeqs(MaxStudents) :
          LET result == transform_students(rows, config)
          IN  /\ students' = IF result.raised THEN students ELSE result.records
              /\ call' = Call("transform_students", None, None, rows, rows, 0)
              /\ Outcome(result)
    /\ UNCHANGED config

\* transform_students on the stored collection, whose records it changes in
\* place
TransformStudents ==
    /\ LET result == transform_students(students, config)
       IN  /\ students' = result.records
           /\ call' = Call("transform_students", None, None, <<>>, students,
                           Len(students))
           /\ Outcome(result)
    /\ UNCHANGED config

\* main.py "Add New Student": students = insert_student(students, new_student).
\* The copied list shares its records with the stored one, so a call that
\* raises leaves the stored records as far as the loop changed them
InsertStudent ==
    /\ Len(students) < MaxStudents
    /\ \E new_student \in Rows :
          LET result == insert_student(students, new_student, config)
          IN  /\ students' = IF result.raised
                             THEN SubSeq(result.records, 1, Len(students))
                             ELSE result.records
              /\ call' = Call("insert_student", None, None, <<new_student>>,
                              Append(students, new_student), Len(students))
              /\ Outcome(result)
    /\ UNCHANGED config

\* insert_students_bulk on a stored collection
InsertStudentsBulk ==
    /\ students # <<>>
    /\ \E new_students \in RowSeqs(MaxStudents - Len(students)), dropNA \in BOOLEAN :
          LET result == insert_students_bulk(students, new_students, config, dropNA)
          IN  /\ students' = IF result.raised THEN students ELSE result.records
              /\ call' = Call("insert_students_bulk", None, None, new_students,
                              IF new_students = <<>> THEN <<>>
                              ELSE ConcatRecords(students, new_students, dropNA),
                              Len(students))
              /\ Outcome(result)
    /\ UNCHANGED config

\* main.py csv_to_students: students = insert_students_bulk([], students),
\* taken from the empty collection
CsvToStudents ==
    /\ students = <<>>
    /\ \E rows \in RowSeqs(MaxStudents) :
          LET result == insert_students_bulk(<<>>, rows, config, TRUE)
          IN  /\ students' = IF result.raised THEN students ELSE result.records
              /\ call' = Call("insert_students_bulk", None, None, rows,
                              IF rows = <<>> THEN <<>>
                              ELSE ConcatRecords(<<>>, rows, TRUE), 0)
              /\ Outcome(result)
    /\ UNCHANGED config

\* main.py "Delete Student": students = delete_student(students, selected_id)
DeleteStudent ==
    /\ \E student_id \in Ids :
          /\ students' = delete_student(students, student_id)
          /\ call' = Call("delete_student", student_id, None, <<>>, <<>>,
                          Len(students))
          /\ ret' = students'
          /\ error' = ""
    /\ UNCHANGED config

GetAtRiskStudents ==
    /\ \E threshold \in Thresholds :
          /\ ret' \in get_at_risk_students(students, threshold, config)
          /\ call' = Call("get_at_risk_students", None, threshold, <<>>, <<>>,
                          Len(students))
          /\ error' = ""
    /\ UNCHANGED <<students, config>>

Next ==
    \/ ReadCsv
    \/ TransformStudents
    \/ InsertStudent
    \/ InsertStudentsBulk
    \/ CsvToStudents
    \/ DeleteStudent
    \/ GetAtRiskStudents

Spec == Init /\ [][Next]_vars

\* ------------------------------------------- the queries' state machine
\* The queries are functions of the collection they are given.  They are
\* applied to every collection of up to MaxRecords records as the program
\* holds it: as transform_students returns it (main.py's first load), or as
\* insert_students_bulk returns it (csv_to_students)
QueryConfigs ==
    { FullConfig,
      [FullConfig EXCEPT !.weights = LightWeights,
                         !.thresholds = Restrict(FullConfig.thresholds, {})] }

\* the last query and its argument
Query(op, arg) == [op |-> op, arg |-> arg]

QueryInit ==
    /\ config \in QueryConfigs
    /\ \E rows \in RowSeqs(MaxRecords), bulk \in BOOLEAN :
          students = IF bulk THEN insert_students_bulk(<<>>, rows, config, TRUE).records
                     ELSE transform_students(rows, config).records
    /\ call = Query("init", "")
    /\ ret = <<>>
    /\ error = ""

\* A query changes neither the collection nor the config and reads no
\* earlier result: every query is put to the collection as the first one
NoQueryYet == call.op = "init"

SelectStudents ==
    /\ NoQueryYet
    /\ \E condition \in Conditions :
          /\ ret' = select_students(students, condition)
          /\ call' = Query("select_students", condition)
    /\ error' = ""
    /\ UNCHANGED <<students, config>>

ProjectStudents ==
    /\ NoQueryYet
    /\ \E fields \in FieldLists :
          /\ ret' = project_students(students, fields)
          /\ call' = Query("project_students", fields)
    /\ error' = ""
    /\ UNCHANGED <<students, config>>

SortStudents ==
    /\ NoQueryYet
    /\ \E key \in SortKeys, reverse \in BOOLEAN :
          /\ ret' \in sort_students(students, key, reverse)
          /\ call' = Query("sort_students", [key |-> key, reverse |-> reverse])
    /\ error' = ""
    /\ UNCHANGED <<students, config>>

GetTopPerformers ==
    /\ NoQueryYet
    /\ \E top_n \in TopNs :
          /\ ret' \in get_top_performers(students, top_n)
          /\ call' = Query("get_top_performers", top_n)
    /\ error' = ""
    /\ UNCHANGED <<students, config>>

\* thresholds passed: none, main.py's 60.0, and two that are final grades
\* of the inputs
QueryThresholds == {None, DefaultAtRisk, 80, 90}

GetAtRiskStudentsBelow ==
    /\ NoQueryYet
    /\ \E threshold \in QueryThresholds :
          /\ ret' \in get_at_risk_students(students, threshold, config)
          /\ call' = Query("get_at_risk_students", threshold)
    /\ error' = ""
    /\ UNCHANGED <<students, config>>

\* main.py: analytics = StudentAnalytics(st.session_state.students), and the
\* methods called on it
CalculatePercentiles ==
    /\ NoQueryYet
    /\ ret' = calculate_percentiles(students)
    /\ students' = students_after_percentiles(students)
    /\ call' = Query("calculate_percentiles", None)
    /\ error' = ""
    /\ UNCHANGED config

\* get_final_grade_statistics: basic_statistics(self.final_grades)
GetFinalGradeStatistics ==
    /\ NoQueryYet
    /\ ret' = basic_statistics(final_grades(students))
    /\ call' = Query("basic_statistics", final_grades(students))
    /\ error' = ""
    /\ UNCHANGED <<students, config>>

IdentifyOutliersIqr ==
    /\ NoQueryYet
    /\ ret' = identify_outliers_iqr(final_grades(students))
    /\ call' = Query("identify_outliers_iqr", final_grades(students))
    /\ error' = ""
    /\ UNCHANGED <<students, config>>

\* thresholds passed: the default 2.0, and 1.0
ZThresholds == {1, DefaultZThreshold}

IdentifyOutliersZscore ==
    /\ NoQueryYet
    /\ \E threshold \in ZThresholds :
          /\ ret' = identify_outliers_zscore(final_grades(students), threshold)
          /\ call' = Query("identify_outliers_zscore",
                           [data |-> final_grades(students),
                            threshold |-> threshold])
    /\ error' = ""
    /\ UNCHANGED <<students, config>>

GetAllOutliers ==
    /\ NoQueryYet
    /\ ret' = get_all_outliers(students)
    /\ call' = Query("get_all_outliers", None)
    /\ error' = ""
    /\ UNCHANGED <<students, config>>

GetSectionComparison ==
    /\ NoQueryYet
    /\ ret' = get_section_comparison(students)
    /\ call' = Query("get_section_comparison", None)
    /\ error' = ""
    /\ UNCHANGED <<students, config>>

QueryNext ==
    \/ SelectStudents
    \/ ProjectStudents
    \/ SortStudents
    \/ GetTopPerformers
    \/ GetAtRiskStudentsBelow
    \/ CalculatePercentiles
    \/ GetFinalGradeStatistics
    \/ IdentifyOutliersIqr
    \/ IdentifyOutliersZscore
    \/ GetAllOutliers
    \/ GetSectionComparison

QuerySpec == QueryInit /\ [][QueryNext]_vars

\* ------------------------------------------ the statistics' state machine
\* The methods of StudentAnalytics are applied to rosters of up to MaxRoster
\* students, each with one score in all eight places, which is then the
\* final grade under the complete config; one student has no midterm.  Two
\* rosters are added as they are: the nine final grades 10, 20, 20, 20, 25,
\* 30, 30, 35, 100, and eight students of whom two have the same low grade
Uniform(v) == <<v, v, v, v, v, v, v, v>>

RosterRows ==
    { MkRow(101, "S1", Uniform(0)),
      MkRow(102, "S1", Uniform(0)),
      MkRow(103, "S1", Uniform(10)),
      MkRow(104, "S2", Uniform(50)),
      MkRow(105, "S1", Uniform(100)),
      MkRow(106, "S2", <<50, 50, 50, 50, 50, None, 50, 50>>) }

NineGrades == <<10, 20, 20, 20, 25, 30, 30, 35, 100>>

ExampleRosters ==
    { [i \in 1..Len(NineGrades) |-> MkRow(100 + i, "S1", Uniform(NineGrades[i]))],
      [i \in 1..8 |-> MkRow(100 + i, "S1", Uniform(IF i <= 2 THEN 0 ELSE 100))] }

Rosters == UNION {[1..k -> RosterRows] : k \in 0..MaxRoster} \cup ExampleRosters

RosterInit ==
    /\ config = FullConfig
    /\ \E rows \in Rosters, bulk \in BOOLEAN :
          students = IF bulk THEN insert_students_bulk(<<>>, rows, config, TRUE).records
                     ELSE transform_students(rows, config).records
    /\ call = Query("init", "")
    /\ ret = <<>>
    /\ error = ""

\* generate_comprehensive_report, which calls calculate_percentiles among
\* the other methods
GenerateComprehensiveReport ==
    /\ NoQueryYet
    /\ ret' = generate_comprehensive_report(students)
    /\ students' = students_after_percentiles(students)
    /\ call' = Query("generate_comprehensive_report", None)
    /\ error' = ""
    /\ UNCHANGED config

RosterNext ==
    \/ CalculatePercentiles
    \/ GetFinalGradeStatistics
    \/ IdentifyOutliersIqr
    \/ IdentifyOutliersZscore
    \/ GetAllOutliers
    \/ GetSectionComparison
    \/ GenerateComprehensiveReport

RosterSpec == RosterInit /\ [][RosterNext]_vars

\* --------------------------------------------------------- vocabulary
TransformOps == {"transform_students", "insert_student", "insert_students_bulk"}

\* the last call returned the collection transform_students produced
Transformed ==
    /\ call.op \in TransformOps
    /\ error = ""
    /\ ~(call.op = "insert_students_bulk" /\ call.rows = <<>>)

Records(s) == {s[i] : i \in 1..Len(s)}

Letters == {"A", "B", "C", "D", "F"}

PresentQuizzes(r) == {i \in 1..5 : ~IsMissing(r[QuizKeys[i]])}

RECURSIVE SetSum(_, _)
SetSum(S, f) ==
    IF S = {} THEN 0
    ELSE LET x == CHOOSE y \in S : TRUE IN f[x] + SetSum(S \ {x}, f)

\* ------------------------------------------------------------- claims

\* C1: after transform_students, final_grade of every record is missing if
\* and only if at least one of quiz_avg, midterm, final, attendance_percent
\* is missing; a score of 0 is present
C1_FinalGradeMissingIff ==
    Transformed =>
        \A r \in Records(ret) :
            IsMissing(r.final_grade)
                <=> \E k \in {"quiz_avg", "midterm", "final", "attendance_percent"} :
                        IsMissing(r[k])

\* a returned record has a score of 0 among its components and a final
\* grade, next to a record without final grade
C1_Witness ==
    /\ Transformed
    /\ \E r \in Records(ret) : r.midterm = 0 /\ IsNumber(r.final_grade)
    /\ \E r \in Records(ret) : r.midterm = None /\ IsMissing(r.final_grade)

\* C2: after transform_students, a record with a defined final_grade has a
\* letter among A, B, C, D, F: the first of A, B, C, D whose threshold the
\* final grade reaches (the bound included), F if it reaches none
C2_Expected(fg, scale) ==
    LET Reaches(k) == k \in DOMAIN scale /\ fg >= scale[k] * GradeScale
    IN  IF Reaches("A") THEN "A"
        ELSE IF Reaches("B") THEN "B"
        ELSE IF Reaches("C") THEN "C"
        ELSE IF Reaches("D") THEN "D"
        ELSE "F"

C2_LetterFollowsScale ==
    Transformed =>
        \A r \in Records(ret) :
            IsNumber(r.final_grade) =>
                /\ r.letter_grade \in Letters
                /\ r.letter_grade = C2_Expected(r.final_grade, config["grade_scale"])

\* a final grade exactly on the A threshold got an A and one below every
\* threshold an F
C2_Witness ==
    /\ Transformed
    /\ config = FullConfig
    /\ \E r \in Records(ret) :
          /\ r.final_grade = config["grade_scale"]["A"] * GradeScale
          /\ r.letter_grade = "A"
    /\ \E r \in Records(ret) :
          /\ IsNumber(r.final_grade)
          /\ r.final_grade < config["grade_scale"]["D"] * GradeScale
          /\ r.letter_grade = "F"

\* C3: in a collection returned by transform_students, insert_student or
\* insert_students_bulk, a record without final grade carries the marker
\* "N/A", never F, and only a record without final grade carries the marker
C3_MarkerIffUndefined ==
    (call.op \in TransformOps /\ error = "") =>
        \A r \in Records(ret) :
            IsMissing(r.final_grade) <=> r.letter_grade = "N/A"

\* C4: after transform_students, quiz_avg is the sum of the present quizzes
\* divided by their number, and it is missing exactly when all five quizzes
\* are missing
C4_QuizAvgIsMean ==
    Transformed =>
        \A r \in Records(ret) :
            LET present == PresentQuizzes(r)
            IN  /\ IsMissing(r.quiz_avg) <=> present = {}
                /\ present # {} =>
                      r.quiz_avg * Cardinality(present)
                        = QuizScale * SetSum(present, [i \in 1..5 |-> r[QuizKeys[i]]])

\* C5: for a record with all four components present, final_grade is
\* quiz_avg*w.quizzes + midterm*w.midterm + final*w.final +
\* attendance_percent*w.attendance with the weights as configured, whether
\* or not they sum to 1
C5_WeightedSum ==
    Transformed =>
        \A r \in Records(ret) :
            (\A k \in {"quiz_avg", "midterm", "final", "attendance_percent"} :
                IsNumber(r[k]))
            => LET w == config["weights"]
               IN  r.final_grade * 1
                     = r.quiz_avg * w["quizzes"]
                       + QuizScale * r.midterm * w["midterm"]
                       + QuizScale * r.final * w["final"]
                       + QuizScale * r.attendance_percent * w["attendance"]

\* the weights sum to 0.8 and a record has final grade 0.8 * 80 = 64
C5_Witness ==
    /\ Transformed
    /\ "weights" \in DOMAIN config
    /\ WeightKeys \subseteq DOMAIN config["weights"]
    /\ SetSum(WeightKeys, config["weights"]) # WeightScale
    /\ \E r \in Records(ret) :
          r.midterm = 80 /\ r.quiz_avg = 80 * QuizScale
          /\ r.final_grade = 64 * GradeScale

\* C6 as claimed: transform_students, here on a collection that is not
\* empty, fails with a configuration error whenever a weight key or one of
\* the scale keys A, B, C, D is absent from the config, and never because a
\* score is missing
C6_ConfigLacksKey ==
    \/ "weights" \notin DOMAIN config
    \/ "grade_scale" \notin DOMAIN config
    \/ ~(WeightKeys \subseteq DOMAIN config["weights"])
    \/ ~({"A", "B", "C", "D"} \subseteq DOMAIN config["grade_scale"])

C6_LetterKeys == <<"A", "B", "C", "D">>

C6_ReadsAbsentKey(r, cfg) ==
    /\ \E i \in 1..5 : r[QuizKeys[i]] # None
    /\ r.midterm # None /\ r.final # None /\ r.attendance_percent # None
    /\ \/ ~(WeightKeys \subseteq DOMAIN cfg["weights"])
       \/ LET scale == cfg["grade_scale"]
              fg == final_grade(quiz_avg(r), r.midterm, r.final,
                                r.attendance_percent, cfg["weights"])
          IN  \E k \in 1..4 :
                  /\ C6_LetterKeys[k] \notin DOMAIN scale
                  /\ \A h \in 1..(k - 1) :
                        /\ C6_LetterKeys[h] \in DOMAIN scale
                        /\ ~(IsNumber(fg) /\ fg >= scale[C6_LetterKeys[h]] * GradeScale)

C6_Raises(input, cfg) ==
    /\ input # <<>>
    /\ \/ "weights" \notin DOMAIN cfg
       \/ "grade_scale" \notin DOMAIN cfg
       \/ \E i \in 1..Len(input) : C6_ReadsAbsentKey(input[i], cfg)

C7_NoAtRiskKey ==
    /\ call.op = "get_at_risk_students"
    /\ call.threshold = None
    /\ students # <<>>
    /\ ~("thresholds" \in DOMAIN config /\ "at_risk" \in DOMAIN config["thresholds"])

Norm(v) == IF v = NaN THEN None ELSE v

Key(r) ==
    <<r.student_id, r.section, Norm(r.quiz1), Norm(r.quiz2), Norm(r.quiz3),
      Norm(r.quiz4), Norm(r.quiz5), Norm(r.midterm), Norm(r.final),
      Norm(r.attendance_percent)>>

Keys(s) == [i \in 1..Len(s) |-> Key(s[i])]

Scores(r) ==
    <<r.student_id, r.section, r.quiz1, r.quiz2, r.quiz3, r.quiz4, r.quiz5,
      r.midterm, r.final, r.attendance_percent>>

Derived(r) == <<r.quiz_avg, r.final_grade, r.letter_grade>>

\* C8: insert_student(S, r) returns the records of S in their order followed
\* by r, each with the quiz_avg, final_grade and letter_grade that a direct
\* transform_students call on that record alone computes; from the empty
\* collection the result is the one record transform_students([r]) gives
C8_InsertOneStep ==
    (call'.op = "insert_student" /\ error' = "") =>
        LET n == Len(students)
            Direct(r) == transform_students(<<r>>, config).records[1]
        IN  /\ Len(ret') = n + 1
            /\ \A i \in 1..n :
                  /\ Scores(ret'[i]) = Scores(students[i])
                  /\ Derived(ret'[i]) = Derived(Direct(students[i]))
            /\ Scores(ret'[n + 1]) = Scores(call'.rows[1])
            /\ Derived(ret'[n + 1]) = Derived(Direct(call'.rows[1]))
            /\ n = 0 => ret' = <<Direct(call'.rows[1])>>
            /\ students' = ret'

C8_InsertOne == [][C8_InsertOneStep]_vars

\* insert_student returned two records, the first of which it found stored
\* with a missing midterm
C8_Witness ==
    /\ call.op = "insert_student"
    /\ error = ""
    /\ call.before = 1
    /\ Len(ret) = 2
    /\ IsMissing(ret[1].midterm)
    /\ IsNumber(ret[2].final_grade)

\* C9: insert_students_bulk(S, N) returns the records of S followed by those
\* of N, each with derived fields consistent with its own scores: quiz_avg
\* the mean of its present quizzes, final_grade missing iff a component is
\* missing, letter_grade the letter of the scale or the marker "N/A"
C9_Consistent(r) ==
    LET present == PresentQuizzes(r)
    IN  /\ IsMissing(r.quiz_avg) <=> present = {}
        /\ present # {} =>
              r.quiz_avg * Cardinality(present)
                = QuizScale * SetSum(present, [i \in 1..5 |-> r[QuizKeys[i]]])
        /\ IsMissing(r.final_grade)
              <=> \E k \in {"quiz_avg", "midterm", "final", "attendance_percent"} :
                      IsMissing(r[k])
        /\ IF IsMissing(r.final_grade) THEN r.letter_grade = "N/A"
           ELSE r.letter_grade = C2_Expected(r.final_grade, config["grade_scale"])

C9_BulkStep ==
    (call'.op = "insert_students_bulk" /\ error' = "") =>
        /\ Keys(ret') = Keys(students) \o Keys(call'.rows)
        /\ \A r \in Records(ret') : C9_Consistent(r)

C9_BulkConsistent == [][C9_BulkStep]_vars

\* C10 as claimed: when several records have the given student_id,
\* delete_student removes the first of them only: one record fewer, the later
\* records with that id still there, all in their original order
C10_Matches(s, id) == {i \in 1..Len(s) : s[i].student_id = id}

C10_FirstOnlyStep ==
    (call'.op = "delete_student"
     /\ Cardinality(C10_Matches(students, call'.id)) >= 2) =>
        LET first == CHOOSE i \in C10_Matches(students, call'.id) :
                        \A j \in C10_Matches(students, call'.id) : i <= j
        IN  /\ Len(ret') = Len(students) - 1
            /\ Keys(ret') = Keys(SubSeq(students, 1, first - 1)
                                 \o SubSeq(students, first + 1, Len(students)))

C10_RemovesFirstOnly == [][C10_FirstOnlyStep]_vars

\* C10 as amended: delete_student removes every record with the given
\* student_id: the result has as many records fewer as had that id, none of
\* its records has the id, and the other records remain in their order
C10_EveryMatchStep ==
    call'.op = "delete_student" =>
        /\ Len(ret') = Len(students) - Cardinality(C10_Matches(students, call'.id))
        /\ C10_Matches(ret', call'.id) = {}
        /\ Keys(ret') = Keys(SelectSeq(students,
                                       LAMBDA r : r.student_id # call'.id))
        /\ students' = ret'

C10_RemovesEveryMatch == [][C10_EveryMatchStep]_vars

\* delete_student, called on two records, removed both
C10_Witness ==
    /\ call.op = "delete_student"
    /\ call.before = 2
    /\ students = <<>>

\* two values of one field are the same value: the same number or text, or
\* both missing (None, or the NaN a DataFrame holds in its place)
SameField(r, s, k) ==
    IF k \in NumericKeys THEN Norm(r[k]) = Norm(s[k]) ELSE r[k] = s[k]

SameRecord(r, s) ==
    /\ DOMAIN r = DOMAIN s
    /\ \A k \in DOMAIN r : SameField(r, s, k)

\* C11: delete_student with an id that no record has returns, without error,
\* the collection it was given: as many records, in the same order, each with
\* the same value for every field, a missing score or derived field still
\* missing
C11_AbsentIdStep ==
    (call'.op = "delete_student" /\ C10_Matches(students, call'.id) = {}) =>
        /\ error' = ""
        /\ Len(ret') = Len(students)
        /\ \A i \in 1..Len(students) : SameRecord(ret'[i], students[i])
        /\ students' = ret'

C12_SelectsWhereTrue ==
    call.op = "select_students" =>
        LET kept == SelectSeq(students, LAMBDA r : Holds(call.arg, r))
        IN  /\ Len(ret) = Len(kept)
            /\ \A i \in 1..Len(kept) : SameRecord(ret[i], kept[i])

\* C13: project_students(S, fields) does not fail on a field name no record
\* has: it returns one record per record of S, in the order of S, each with
\* the requested fields that exist and their values, the other requested
\* names absent
C13_ProjectsEveryRecord ==
    call.op = "project_students" =>
        /\ error = ""
        /\ Len(ret) = Len(students)
        /\ \A i \in 1..Len(students) :
              /\ DOMAIN ret[i] = Range(call.arg) \cap DOMAIN students[i]
              /\ \A k \in DOMAIN ret[i] : SameField(ret[i], students[i], k)

\* ret holds the records of s, each as often as s does, rearranged by p
Rearranges(p, s) ==
    /\ Len(ret) = Len(s)
    /\ \A i \in 1..Len(s) : SameRecord(ret[i], s[p[i]])

\* C14: sort_students(S, key, reverse) returns a permutation of S in which
\* the records with a present key value come first, in non-decreasing order
\* of the key when reverse is false and in non-increasing order when it is
\* true, and the records with a missing key value come after them in both
\* directions
C14_SortedMissingLast ==
    call.op = "sort_students" =>
        LET key == call.arg.key
        IN  /\ \E p \in IndexOrders(Len(students)) : Rearranges(p, students)
            /\ \A i, j \in 1..Len(ret) :
                  i < j =>
                      /\ IsMissing(ret[i][key]) => IsMissing(ret[j][key])
                      /\ (IsNumber(ret[i][key]) /\ IsNumber(ret[j][key])) =>
                            IF call.arg.reverse THEN ret[i][key] >= ret[j][key]
                            ELSE ret[i][key] <= ret[j][key]

\* a descending sort moved a record without key value from the first place
\* behind two records that it put in the opposite order
C14_Witness ==
    /\ call.op = "sort_students"
    /\ call.arg.reverse
    /\ Len(students) = 3
    /\ IsMissing(students[1][call.arg.key])
    /\ IsNumber(students[2][call.arg.key])
    /\ IsNumber(students[3][call.arg.key])
    /\ students[2][call.arg.key] < students[3][call.arg.key]
    /\ SameRecord(ret[1], students[3])
    /\ SameRecord(ret[3], students[1])

\* C15: sort_students is stable: two records with equal key value come out
\* in the order they had in the input, ascending and descending
C15_Stable ==
    call.op = "sort_students" =>
        \E p \in IndexOrders(Len(students)) :
            /\ Rearranges(p, students)
            /\ \A i, j \in 1..Len(students) :
                  (i < j /\ Norm(students[p[i]][call.arg.key])
                              = Norm(students[p[j]][call.arg.key]))
                      => p[i] < p[j]

\* the places of s whose record has a final grade
Graded(s) == {i \in 1..Len(s) : ~IsMissing(s[i].final_grade)}

\* the ways to take the records of ret from different places of s
Picks(s) ==
    {p \in [1..Len(ret) -> 1..Len(s)] :
        /\ \A i, j \in 1..Len(ret) : i # j => p[i] # p[j]
        /\ \A i \in 1..Len(ret) : SameRecord(ret[i], s[p[i]])}

\* C16: get_top_performers(S, n) returns min(n, number of records with a
\* final grade) records, all with a final grade, in non-increasing order of
\* it, no record left out having a higher final grade than a returned one,
\* and records with equal final grade in the order they had in S
C16_TopInOrder ==
    call.op = "get_top_performers" =>
        /\ Len(ret) = Min(call.arg, Cardinality(Graded(students)))
        /\ \A i \in 1..Len(ret) : IsNumber(ret[i].final_grade)
        /\ \A i \in 1..(Len(ret) - 1) : ret[i].final_grade >= ret[i + 1].final_grade
        /\ \E p \in Picks(students) :
              /\ \A k \in Graded(students) \ {p[i] : i \in 1..Len(ret)} :
                    \A i \in 1..Len(ret) :
                        students[k].final_grade <= ret[i].final_grade
              /\ \A i, j \in 1..Len(ret) :
                    (i < j /\ ret[i].final_grade = ret[j].final_grade)
                        => p[i] < p[j]

\* the same without the order of equal final grades
C16_TopWithoutTies ==
    call.op = "get_top_performers" =>
        /\ Len(ret) = Min(call.arg, Cardinality(Graded(students)))
        /\ \A i \in 1..Len(ret) : IsNumber(ret[i].final_grade)
        /\ \A i \in 1..(Len(ret) - 1) : ret[i].final_grade >= ret[i + 1].final_grade
        /\ \E p \in Picks(students) :
              \A k \in Graded(students) \ {p[i] : i \in 1..Len(ret)} :
                  \A i \in 1..Len(ret) :
                      students[k].final_grade <= ret[i].final_grade

\* C17: get_at_risk_students(S, t) returns exactly the records of S that
\* have a final grade and have it strictly below t, never one with a final
\* grade equal to t or without final grade, in non-decreasing order of the
\* final grade
C17_StrictlyBelow ==
    (call.op = "get_at_risk_students" /\ call.arg # None) =>
        LET below == {i \in Graded(students) :
                         students[i].final_grade < call.arg * GradeScale}
        IN  /\ \E p \in Picks(students) : {p[i] : i \in 1..Len(ret)} = below
            /\ \A i \in 1..(Len(ret) - 1) :
                  ret[i].final_grade <= ret[i + 1].final_grade

\* of three records, the first with a final grade equal to the threshold,
\* the call returned the other two, the last one first
C17_Witness ==
    /\ call.op = "get_at_risk_students"
    /\ call.arg # None
    /\ Len(students) = 3
    /\ students[1].final_grade = call.arg * GradeScale
    /\ Len(ret) = 2
    /\ SameRecord(ret[1], students[3])
    /\ SameRecord(ret[2], students[2])
    /\ ret[1].final_grade < ret[2].final_grade

\* the record without what it carried as derived values
Forget(r) == [r EXCEPT !.quiz_avg = None, !.final_grade = None,
                       !.letter_grade = "None"]

\* C18: transform_students supersedes the derived values a record carried:
\* quiz_avg, final_grade and letter_grade after the call are those of the
\* record's scores under the config, whatever the three were before, and a
\* second transform_students changes nothing
C18_SupersedesStep ==
    (call'.op = "transform_students" /\ error' = "") =>
        /\ Len(ret') = Len(call'.input)
        /\ \A i \in 1..Len(ret') :
              /\ Scores(ret'[i]) = Scores(call'.input[i])
              /\ Derived(ret'[i])
                   = Derived(transform_students(<<Forget(call'.input[i])>>,
                                                config).records[1])
        /\ transform_students(ret', config) = [records |-> ret', raised |-> FALSE]

C18_Supersedes == [][C18_SupersedesStep]_vars

\* transform_students was applied to stored records, one of which carried
\* the letter "N/A" and a quiz average, and left it with another letter and
\* another quiz average
C18_Witness ==
    /\ call.op = "transform_students"
    /\ error = ""
    /\ call.before > 0
    /\ \E i \in 1..Len(ret) :
          /\ call.input[i].letter_grade = "N/A"
          /\ ret[i].letter_grade # "N/A"
          /\ IsNumber(call.input[i].quiz_avg)
          /\ ret[i].quiz_avg # call.input[i].quiz_avg

\* C20: calculate_percentiles returns one entry per student with a defined
\* final grade; with below_count the number of defined final grades strictly
\* below the student's and n the number of defined final grades, percentile
\* is 100 * below_count / n (to the two decimals it is rounded to) and
\* percentile_rank is below_count + 1; students with the same final grade
\* get the same percentile and the same percentile_rank
C20_BelowCount(grade) ==
    Cardinality({j \in Graded(students) : students[j].final_grade < grade})

C20_PercentileOfBelowCount ==
    call.op = "calculate_percentiles" =>
        LET n == Cardinality(Graded(students))
        IN  /\ Len(ret) = n
            /\ \E p \in [1..Len(ret) -> Graded(students)] :
                  /\ \A i, j \in 1..Len(ret) : i # j => p[i] # p[j]
                  /\ \A i \in 1..Len(ret) :
                        \A k \in DOMAIN students[p[i]] :
                            SameField(ret[i], students[p[i]], k)
            /\ \A i \in 1..Len(ret) :
                  /\ IsNumber(ret[i].final_grade)
                  /\ ret[i].percentile
                       = percentile(C20_BelowCount(ret[i].final_grade), n)
                  /\ ret[i].percentile_rank = C20_BelowCount(ret[i].final_grade) + 1
            /\ \A i, j \in 1..Len(ret) :
                  ret[i].final_grade = ret[j].final_grade =>
                      /\ ret[i].percentile = ret[j].percentile
                      /\ ret[i].percentile_rank = ret[j].percentile_rank

\* C19: every statistics function of StudentAnalytics returns an empty
\* result, without raising, on an empty input: basic_statistics([]) the empty
\* mapping, identify_outliers_iqr([]) and identify_outliers_zscore([]) no
\* outliers, and calculate_percentiles, get_all_outliers and
\* get_section_comparison an empty result when no student has a defined
\* final grade
C19_EmptyOnEmpty ==
    /\ error = ""
    /\ (call.op = "basic_statistics" /\ call.arg = <<>>) => ret = <<>>
    /\ (call.op = "identify_outliers_iqr" /\ call.arg = <<>>) => ret[1] = <<>>
    /\ (call.op = "identify_outliers_zscore" /\ call.arg.data = <<>>)
           => ret[1] = <<>>
    /\ (call.op \in {"calculate_percentiles", "get_all_outliers",
                     "get_section_comparison"}
        /\ Graded(students) = {}) => ret = <<>>

\* all students have a final grade, and no two the same
C21_DistinctGrades ==
    /\ students # <<>>
    /\ \A i \in 1..Len(students) : IsNumber(students[i].final_grade)
    /\ \A i, j \in 1..Len(students) :
          i # j => students[i].final_grade # students[j].final_grade

C21_MaxEntries ==
    {i \in 1..Len(ret) :
        \A j \in 1..Len(students) : students[j].final_grade <= ret[i].final_grade}

\* C21 as claimed: for n students with n pairwise distinct defined final
\* grades, calculate_percentiles reports for the student with the highest
\* grade the percentile 100 * (n - 1) / n, exactly
C21_MaxPercentileExact ==
    (call.op = "calculate_percentiles" /\ C21_DistinctGrades) =>
        /\ C21_MaxEntries # {}
        /\ \A i \in C21_MaxEntries :
              ret[i].percentile * Len(students)
                  = HundredPercent * 100 * (Len(students) - 1)

\* C21 as amended: the percentile reported for that student is
\* 100 * (n - 1) / n rounded to two decimals (66.67 for n = 3)
C21_MaxPercentileRounded ==
    (call.op = "calculate_percentiles" /\ C21_DistinctGrades) =>
        /\ Cardinality(C21_MaxEntries) = 1
        /\ \A i \in C21_MaxEntries :
              LET n == Len(students)
                  exact == HundredPercent * 100 * (n - 1)
              IN  \* the hundredth nearest to exact / n
                  /\ 2 * Abs(ret[i].percentile * n - exact) <= n
                  /\ ret[i].percentile_rank = n

\* three students with three different final grades, the highest with the
\* percentile 66.67
C21_Witness ==
    /\ call.op = "calculate_percentiles"
    /\ C21_DistinctGrades
    /\ Len(students) = 3
    /\ ret[1].percentile = 6667
    /\ ret[1].final_grade > ret[2].final_grade

\* the k-th smallest of the numbers of data
C22_KthSmallest(data, k) ==
    CHOOSE v \in Range(data) :
        /\ Cardinality({i \in 1..Len(data) : data[i] < v}) < k
        /\ Cardinality({i \in 1..Len(data) : data[i] <= v}) >= k

\* four times the percentile 25 * quarters of data, interpolated linearly
\* between the two values on either side of the position (n - 1) * quarters / 4
C22_Percentile4(data, quarters) ==
    LET pos == (Len(data) - 1) * quarters
        r == pos % 4
        below == C22_KthSmallest(data, pos \div 4 + 1)
    IN  IF r = 0 THEN 4 * below
        ELSE (4 - r) * below + r * C22_KthSmallest(data, pos \div 4 + 2)

\* x lies outside [Q1 - 1.5 * IQR, Q3 + 1.5 * IQR], all taken eight times
C22_Outside(data, x) ==
    LET q1 == C22_Percentile4(data, 1)
        q3 == C22_Percentile4(data, 3)
    IN  \/ 8 * x < 2 * q1 - 3 * (q3 - q1)
        \/ 8 * x > 2 * q3 + 3 * (q3 - q1)

\* C22: identify_outliers_iqr(data) returns exactly the values x of data with
\* x < Q1 - 1.5 * IQR or x > Q3 + 1.5 * IQR, a value equal to a bound not
\* among them, in the order of data, Q1 and Q3 being the 25th and 75th
\* percentile by linear interpolation and IQR = Q3 - Q1; outlier_count is
\* the length of the list returned; of 10, 20, 20, 20, 25, 30, 30, 35, 100
\* the value 100 is returned
C22_OutsideTheFences ==
    (call.op = "identify_outliers_iqr" /\ call.arg # <<>>) =>
        LET data == call.arg
        IN  /\ error = ""
            /\ ret[1] = IF HasNaN(data) THEN <<>>
                        ELSE SelectSeq(data, LAMBDA x : C22_Outside(data, x))
            /\ ret[2].outlier_count = Len(ret[1])
            /\ data = [i \in 1..Len(NineGrades) |-> NineGrades[i] * GradeScale]
                  => ret[1] = <<100 * GradeScale>>

\* the call on the nine grades returned 100, with the quartiles 20 and 30
C22_Witness ==
    /\ call.op = "identify_outliers_iqr"
    /\ call.arg = [i \in 1..Len(NineGrades) |-> NineGrades[i] * GradeScale]
    /\ ret[1] = <<100 * GradeScale>>
    /\ ret[2].q1 = Ratio(4 * 20 * GradeScale, 4)
    /\ ret[2].q3 = Ratio(4 * 30 * GradeScale, 4)

\* C23: for data of one, two or three values identify_outliers_iqr returns no
\* outlier and raises no error
C23_NoOutlierBelowFour ==
    (call.op = "identify_outliers_iqr" /\ Len(call.arg) \in 1..3) =>
        /\ error = ""
        /\ ret[1] = <<>>
        /\ ret[2].outlier_count = 0

\* the call on three distinct values, the largest ten times the middle one,
\* returned no outlier
C23_Witness ==
    /\ call.op = "identify_outliers_iqr"
    /\ Sorted(call.arg) = <<0, 10 * GradeScale, 100 * GradeScale>>
    /\ ret[1] = <<>>
    /\ ret[2].outlier_count = 0

\* n * x - sum(data) in units of the greatest common divisor of the data:
\* n times the distance of x from the mean
C24_Distance(data, x) ==
    LET unit == SeqGCD(data)
    IN  IF unit = 0 THEN 0 ELSE (Len(data) * x - SeqSum(data)) \div unit

\* n^3 times the population variance of data, in the same units
C24_SquareSum(data) ==
    SeqSum([i \in 1..Len(data) |-> C24_Distance(data, data[i]) * C24_Distance(data, data[i])])

\* abs(x - mean) / std_dev > threshold, for a population standard deviation
\* that is not 0, compared on the squares
C24_Beyond(data, threshold, x) ==
    Len(data) * C24_Distance(data, x) * C24_Distance(data, x)
        > threshold * threshold * C24_SquareSum(data)

\* C24: identify_outliers_zscore(data, threshold) returns exactly the values
\* x of data with abs(x - mean) / std_dev strictly greater than threshold,
\* std_dev being the population standard deviation and 2.0 the threshold
\* when none is given; when all values are equal, so that std_dev is 0, it
\* returns no outlier and raises nothing
C24_BeyondThreshold ==
    /\ (call.op = "identify_outliers_zscore" /\ call.arg.data # <<>>) =>
          LET data == call.arg.data
          IN  /\ error = ""
              /\ ret[2].threshold = call.arg.threshold
              /\ ret[1] = IF HasNaN(data) \/ C24_SquareSum(data) = 0 THEN <<>>
                          ELSE SelectSeq(data, LAMBDA x :
                                   C24_Beyond(data, call.arg.threshold, x))
    /\ (call.op = "get_all_outliers" /\ ret # <<>>) =>
          ret.zscore.statistics.threshold = 2

\* with threshold 1 the grades 0 and 100 each lie exactly one standard
\* deviation from the mean and neither was returned
C24_Witness ==
    /\ call.op = "identify_outliers_zscore"
    /\ call.arg = [data |-> <<0, 100 * GradeScale>>, threshold |-> 1]
    /\ ret[1] = <<>>
    /\ ret[2].outlier_count = 0

\* the defined final grades of the students of a section, in collection order
C25_DefinedGrades(section) ==
    LET counted == SelectSeq(students, LAMBDA s : s.section = section
                                                  /\ ~IsMissing(s.final_grade))
    IN  [i \in 1..Len(counted) |-> counted[i].final_grade]

\* C25: get_section_comparison has an entry for a section exactly when some
\* student of the section has a defined final grade, and the entry's count
\* and statistics are those of the defined final grades of the section
C25_SectionsOfDefinedGrades ==
    call.op = "get_section_comparison" =>
        /\ DOMAIN ret = {section \in {students[i].section : i \in 1..Len(students)} :
                            section # "" /\ C25_DefinedGrades(section) # <<>>}
        /\ \A section \in DOMAIN ret :
              /\ ret[section].count = Len(C25_DefinedGrades(section))
              /\ ret[section].statistics = basic_statistics(C25_DefinedGrades(section))

\* the sum of the counts of a letter_grades mapping
RECURSIVE C26_Total(_)
C26_Total(counts) ==
    IF DOMAIN counts = {} THEN 0
    ELSE LET letter == CHOOSE l \in DOMAIN counts : TRUE
         IN  counts[letter]
             + C26_Total([l \in DOMAIN counts \ {letter} |-> counts[l]])

\* C26: for every section get_section_comparison reports, the counts of
\* letter_grades sum to the section's count of students with a defined final
\* grade, also in a section that mixes defined and missing final grades
C26_LettersSumToCount ==
    call.op = "get_section_comparison" =>
        \A section \in DOMAIN ret :
            C26_Total(ret[section].letter_grades) = ret[section].count

\* how often v occurs in data
C27_Frequency(data, v) == Cardinality({i \in 1..Len(data) : data[i] = v})

\* C27: the mode basic_statistics reports is a value of data whose frequency
\* is maximal, and of several values of maximal frequency the one that
\* occurs first in data
C27_FirstMostFrequent ==
    (call.op = "basic_statistics" /\ call.arg # <<>> /\ ~HasNaN(call.arg)) =>
        LET data == call.arg
        IN  \E first \in 1..Len(data) :
                /\ ret.mode = data[first]
                /\ \A i \in 1..Len(data) :
                      C27_Frequency(data, data[i]) <= C27_Frequency(data, ret.mode)
                /\ \A i \in 1..(first - 1) :
                      C27_Frequency(data, data[i]) < C27_Frequency(data, ret.mode)

\* two values occur twice each, the larger one first, and the larger one
\* was reported
C27_Witness ==
    /\ call.op = "basic_statistics"
    /\ call.arg = <<100 * GradeScale, 0, 0, 100 * GradeScale>>
    /\ ret.mode = 100 * GradeScale

\* the methods of StudentAnalytics
C28_Methods ==
    {"basic_statistics", "calculate_percentiles", "identify_outliers_iqr",
     "identify_outliers_zscore", "get_all_outliers", "get_section_comparison",
     "generate_comprehensive_report"}

C28_ReadsOnlyStep ==
    call'.op \in C28_Methods =>
        /\ students' = students
        /\ config' = config
        /\ call'.op = "calculate_percentiles" =>
              \A i \in 1..Len(ret') :
                  /\ {"percentile", "percentile_rank"} \subseteq DOMAIN ret'[i]
                  /\ \E j \in 1..Len(students') :
                        /\ students'[j].student_id = ret'[i].student_id
                        /\ DOMAIN students'[j]
                               = DOMAIN ret'[i] \ {"percentile", "percentile_rank"}

\* C28: no method of StudentAnalytics (basic_statistics,
\* calculate_percentiles, identify_outliers_iqr, identify_outliers_zscore,
\* get_all_outliers, get_section_comparison, generate_comprehensive_report)
\* changes the collection it was constructed with or a field of one of its
\* records; the percentile fields of calculate_percentiles are on the
\* records returned, which are copies, and not on the records of the
\* collection
C28_ReadsOnly == [][C28_ReadsOnlyStep]_vars

\* calculate_percentiles returned records with percentile fields and the
\* records of the collection have none
C28_Witness ==
    /\ call.op = "calculate_percentiles"
    /\ Len(ret) = 2
    /\ \A i \in 1..Len(ret) : "percentile" \in DOMAIN ret[i]
    /\ Len(students) = 2
    /\ \A j \in 1..Len(students) : "percentile" \notin DOMAIN students[j]

\* no two students of the collection have the same student_id
C29_DistinctIds ==
    \A i, j \in 1..Len(students) :
        students[i].student_id = students[j].student_id => i = j

\* C29: in the result of get_all_outliers the outlier_students list of each
\* method has exactly one entry for every student whose final grade is among
\* the method's outliers and none for any other student, so that no student
\* is listed twice, also when several students have the same outlier grade
C29_OneEntryPerOutlierStudent ==
    (call.op = "get_all_outliers" /\ ret # <<>> /\ C29_DistinctIds) =>
        \A method \in {"iqr", "zscore"} :
            \A j \in 1..Len(students) :
                Cardinality({k \in 1..Len(ret[method].outlier_students) :
                                ret[method].outlier_students[k].student_id
                                    = students[j].student_id})
                    = IF students[j].final_grade \in Range(ret[method].outliers)
                      THEN 1 ELSE 0

\* C30: for non-empty data the statistics mapping of identify_outliers_zscore
\* has the key outlier_count, with the number of outliers returned, so that
\* whenever some final grade is defined the outlier_count of
\* get_all_outliers()['zscore']['statistics'], which the report and the
\* chart read, is there
C30_OutlierCountKey ==
    /\ (call.op = "identify_outliers_zscore" /\ call.arg.data # <<>>) =>
          /\ "outlier_count" \in DOMAIN ret[2]
          /\ ret[2].outlier_count = Len(ret[1])
    /\ (call.op = "get_all_outliers" /\ final_grades(students) # <<>>) =>
          "outlier_count" \in DOMAIN ret.zscore.statistics
    /\ (call.op = "generate_comprehensive_report" /\ final_grades(students) # <<>>) =>
          "outlier_count" \in DOMAIN ret.outliers.zscore.statistics

====
